---- MODULE Spec2Model ----
(***************************************************************************)
(* Model of the machine actuator of cluster-api-provider-aws               *)
(* (pkg/cloud/aws/actuators/machine/actuator.go).                          *)
(*                                                                         *)
(* The state is the resource store (each machine's labels, spec and        *)
(* committed Status), the compute backend (the live state of every         *)
(* instance), the API server load balancer (registered instances) and the  *)
(* verb that is returning to the machine controller: its result and the    *)
(* calls it made to its collaborators, in order.                           *)
(*                                                                         *)
(* Spec runs Create, Delete and Exists one call at a time. SpecUpdate adds *)
(* Update and the drift of security groups and tags, SpecConcurrent lets   *)
(* the Create calls of different machines interleave, SpecRetry has the    *)
(* control loop call Create again after every retry-after.                 *)
(***************************************************************************)
EXTENDS Integers, Sequences, FiniteSets, TLC

\* ---- bounds ----
MaxMachines == 2
MaxInstances == 2
MaxGroups == 3
MaxTags == 1
MaxRequeues == 2

\* ---- program constants ----
RequeueAfterMinutes == 1
BootstrapTokenTTLMinutes == 10

Machines == 1..MaxMachines
InstanceIDs == 1..MaxInstances
\* security-group IDs and tags
Groups == 1..MaxGroups
Tags == 1..MaxTags
\* a nil Status.InstanceID
NoID == 0
\* no machine
NoMachine == NoID

\* values of the label "set"; "" is the absent label (a Go map lookup of a
\* missing key yields the empty string)
Labels == {"node", "controlplane", "foo", ""}

\* v1alpha1.InstanceState: the states the actuator tells apart
InstanceStates == {"pending", "running", "shutting-down", "terminated"}
Absent == "absent"

\* where a collaborator call of a verb can fail; every failure of a verb
\* ends it, so one fault point per invocation covers every outcome
CreateFaults == {"none", "scope", "ip", "list", "kubeconfig", "clientconfig", "coreclient",
                 "token", "kubeconfig2", "faileddependency", "provision", "register"}
DeleteFaults == {"none", "scope", "lookup", "terminate"}
ExistsFaults == {"none", "scope", "lookup", "register"}
UpdateFaults == {"none", "scope", "lookup", "groups", "tags"}
\* a failing query of isNodeJoin: the machine queried and the call that fails
QueryFaults == {<<NoMachine, "none">>} \cup (Machines \X {"cpscope", "cpexists"})

VARIABLES
    label,                  \* machine.ObjectMeta.Labels["set"]
    versionsControlPlane,   \* machine.Spec.Versions.ControlPlane != ""
    statusID,               \* Status.InstanceID committed in the resource store (NoID: nil)
    statusState,            \* Status.InstanceState committed in the resource store
    annotated,              \* machine.Annotations["cluster-api-provider-aws"] = "true"
    instances,              \* compute backend: live state of each instance, or Absent
    owner,                  \* compute backend: the machine an instance was launched for
    registered,             \* instances registered with the API server load balancer
    last,                   \* the verb that is returning, NoEvent when none is
    desiredGroups,          \* MachineConfig.AdditionalSecurityGroups of each machine
    desiredTags,            \* MachineConfig.AdditionalTags of each machine
    liveGroups,             \* compute backend: the security groups of each instance
    liveTags,               \* compute backend: the tags of each instance
    worker,                 \* control loop: where the worker of each machine stands
    networkReady            \* compute backend: the network infrastructure is available

vars == <<label, versionsControlPlane, statusID, statusState, annotated,
          instances, owner, registered, last,
          desiredGroups, desiredTags, liveGroups, liveTags, worker, networkReady>>

\* the configuration of the machines, the attributes of the instances, the
\* control loop
configVars == <<label, versionsControlPlane, desiredGroups, desiredTags>>
driftVars == <<liveGroups, liveTags>>
loopVars == <<worker, networkReady>>

Call(op, arg, out) == [op |-> op, arg |-> arg, out |-> out]

NoEvent ==
    [verb |-> "none", machine |-> NoMachine, result |-> "none", exists |-> FALSE,
     requeueAfter |-> 0, join |-> "none", idBefore |-> NoID, launched |-> FALSE,
     calls |-> <<>>]

\* a worker that has not called Create
NoWork == [stage |-> "none", join |-> "none", pre |-> <<>>, requeues |-> 0]

\* nothing is provisioned and no verb has been called
Unprovisioned ==
    /\ statusID = [m \in Machines |-> NoID]
    /\ statusState = [m \in Machines |-> "none"]
    /\ annotated = [m \in Machines |-> FALSE]
    /\ instances = [i \in InstanceIDs |-> Absent]
    /\ owner = [i \in InstanceIDs |-> NoMachine]
    /\ registered = {}
    /\ last = NoEvent
    /\ liveGroups = [i \in InstanceIDs |-> {}]
    /\ liveTags = [i \in InstanceIDs |-> {}]
    /\ worker = [m \in Machines |-> NoWork]

\* machines of any role, without additional security groups and tags, on a
\* network that is available
Init ==
    /\ label \in [Machines -> Labels]
    /\ versionsControlPlane \in [Machines -> BOOLEAN]
    /\ desiredGroups = [m \in Machines |-> {}]
    /\ desiredTags = [m \in Machines |-> {}]
    /\ networkReady = TRUE
    /\ Unprovisioned

\* ---- collaborators (pkg/cloud/aws/services, pkg/deployer, pkg/tokens) ----

\* ec2.Service.InstanceIfExists: the instance or nil, or an error
InstanceIfExists(id, fault) ==
    IF fault = "lookup" THEN "err" ELSE instances[id]

\* ec2.Service.MachineExists: whether the machine's backing instance exists
MachineExists(m) ==
    /\ statusID[m] # NoID
    /\ instances[statusID[m]] # Absent

\* ec2.Service.TerminateInstance: signals the termination, the instance
\* starts shutting down
TerminateInstance(id) == [instances EXCEPT ![id] = "shutting-down"]

\* the instance ec2.Service.createInstance launches next
FreshID ==
    IF \E i \in InstanceIDs : owner[i] = NoMachine
    THEN CHOOSE i \in InstanceIDs :
             /\ owner[i] = NoMachine
             /\ \A j \in InstanceIDs : owner[j] = NoMachine => i <= j
    ELSE NoID

\* ec2.Service.CreateOrGetMachine: the machine's instance if it is already
\* provisioned, a newly launched instance otherwise
CreateOrGetMachine(m, fault) ==
    IF fault = "faileddependency" THEN [out |-> "faileddependency", id |-> NoID, state |-> "none", launched |-> FALSE]
    ELSE IF fault = "provision" THEN [out |-> "err", id |-> NoID, state |-> "none", launched |-> FALSE]
    ELSE IF MachineExists(m)
         THEN [out |-> "ok", id |-> statusID[m], state |-> instances[statusID[m]], launched |-> FALSE]
         ELSE [out |-> "ok", id |-> FreshID, state |-> "pending", launched |-> TRUE]

\* the calls op(x), x in the set S of 1..n, in ascending order
Ops(op, S, n) ==
    LET q == SelectSeq([k \in 1..n |-> k], LAMBDA x : x \in S)
    IN  [k \in 1..Len(q) |-> Call(op, q[k], "ok")]

\* Actuator.ensureSecurityGroups: adds to the instance the desired groups it
\* lacks and removes from it the groups that are not desired; it reports
\* the groups the instance has afterwards
ensureSecurityGroups(id, additional, existing, fault) ==
    IF fault = "groups"
    THEN [err |-> TRUE, groups |-> liveGroups[id],
          calls |-> <<Call("ensureSecurityGroups", id, "err")>>]
    ELSE [err |-> FALSE,
          groups |-> (liveGroups[id] \cup (additional \ existing)) \ (existing \ additional),
          calls |-> <<Call("ensureSecurityGroups", id, "ok")>>
                    \o Ops("AddSecurityGroup", additional \ existing, MaxGroups)
                    \o Ops("RemoveSecurityGroup", existing \ additional, MaxGroups)]

\* Actuator.ensureTags: the same correction for the tags of the instance
ensureTags(id, additional, fault) ==
    IF fault = "tags"
    THEN [err |-> TRUE, tags |-> liveTags[id],
          calls |-> <<Call("ensureTags", id, "err")>>]
    ELSE [err |-> FALSE, tags |-> additional,
          calls |-> <<Call("ensureTags", id, "ok")>>
                    \o Ops("AddTag", additional \ liveTags[id], MaxTags)
                    \o Ops("RemoveTag", liveTags[id] \ additional, MaxTags)]

\* ---- the actuator ----

\* scope.MachineClient.List: the machines of the cluster
MachineList == [k \in 1..MaxMachines |-> k]

getControlPlaneMachines(machineList) ==
    SelectSeq(machineList, LAMBDA m : versionsControlPlane[m])

\* the loop of isNodeJoin over controlPlaneMachines from position k on; qm is
\* the machine whose query fails with qf, if any
RECURSIVE controlPlaneExists(_, _, _, _)
controlPlaneExists(cpm, k, qm, qf) ==
    IF k > Len(cpm) THEN [exists |-> FALSE, err |-> FALSE, calls |-> <<>>]
    ELSE LET cm == cpm[k] IN
         IF cm = qm /\ qf = "cpscope"
         THEN [exists |-> FALSE, err |-> TRUE,
               calls |-> <<Call("NewMachineScope", cm, "err")>>]
         ELSE IF cm = qm /\ qf = "cpexists"
         THEN [exists |-> FALSE, err |-> TRUE,
               calls |-> <<Call("NewMachineScope", cm, "ok"), Call("MachineExists", cm, "err")>>]
         ELSE IF MachineExists(cm)
         THEN [exists |-> TRUE, err |-> FALSE,
               calls |-> <<Call("NewMachineScope", cm, "ok"), Call("MachineExists", cm, "true")>>]
         ELSE LET r == controlPlaneExists(cpm, k + 1, qm, qf) IN
              [r EXCEPT !.calls = <<Call("NewMachineScope", cm, "ok"),
                                    Call("MachineExists", cm, "false")>> \o r.calls]

\* isNodeJoin taking a machine of unknown role for one that does not join
isNodeJoinUnknownRoleAccepted(controlPlaneMachines, newMachine, qm, qf) ==
    IF label[newMachine] = "node"
    THEN [join |-> TRUE, err |-> FALSE, calls |-> <<>>]
    ELSE IF label[newMachine] = "controlplane"
    THEN LET r == controlPlaneExists(controlPlaneMachines, 1, qm, qf) IN
         [join |-> r.exists, err |-> r.err, calls |-> r.calls]
    ELSE [join |-> FALSE, err |-> FALSE, calls |-> <<>>]

\* isNodeJoin dropping the error of a failed existence query
isNodeJoinQueryErrorDropped(controlPlaneMachines, newMachine, qm, qf) ==
    IF label[newMachine] = "node"
    THEN [join |-> TRUE, err |-> FALSE, calls |-> <<>>]
    ELSE IF label[newMachine] = "controlplane"
    THEN LET r == controlPlaneExists(controlPlaneMachines, 1, qm, qf) IN
         [join |-> r.exists, err |-> FALSE, calls |-> r.calls]
    ELSE [join |-> FALSE, err |-> TRUE, calls |-> <<>>]

isNodeJoin(controlPlaneMachines, newMachine, qm, qf) ==
    IF label[newMachine] = "node"
    THEN [join |-> TRUE, err |-> FALSE, calls |-> <<>>]
    ELSE IF label[newMachine] = "controlplane"
    THEN LET r == controlPlaneExists(controlPlaneMachines, 1, qm, qf) IN
         [join |-> r.exists, err |-> r.err, calls |-> r.calls]
    ELSE [join |-> FALSE, err |-> TRUE, calls |-> <<>>]

\* getNodeJoinToken returning an empty token instead of its error
getNodeJoinTokenErrorDropped(fault) ==
    IF fault = "kubeconfig"
    THEN [err |-> FALSE, calls |-> <<Call("GetKubeConfig", 0, "err")>>]
    ELSE IF fault \in {"clientconfig", "coreclient"}
    THEN [err |-> FALSE, calls |-> <<Call("GetKubeConfig", 0, "ok")>>]
    ELSE IF fault = "token"
    THEN [err |-> FALSE, calls |-> <<Call("GetKubeConfig", 0, "ok"),
                                     Call("NewBootstrap", BootstrapTokenTTLMinutes, "err")>>]
    ELSE [err |-> FALSE, calls |-> <<Call("GetKubeConfig", 0, "ok"),
                                     Call("NewBootstrap", BootstrapTokenTTLMinutes, "ok")>>]

getNodeJoinToken(fault) ==
    IF fault = "kubeconfig"
    THEN [err |-> TRUE, calls |-> <<Call("GetKubeConfig", 0, "err")>>]
    ELSE IF fault \in {"clientconfig", "coreclient"}
    THEN [err |-> TRUE, calls |-> <<Call("GetKubeConfig", 0, "ok")>>]
    ELSE IF fault = "token"
    THEN [err |-> TRUE, calls |-> <<Call("GetKubeConfig", 0, "ok"),
                                    Call("NewBootstrap", BootstrapTokenTTLMinutes, "err")>>]
    ELSE [err |-> FALSE, calls |-> <<Call("GetKubeConfig", 0, "ok"),
                                     Call("NewBootstrap", BootstrapTokenTTLMinutes, "ok")>>]

\* reconcileLBAttachment registering the instance whatever the machine's role
reconcileLBAttachmentAnyRole(m, id, fault) ==
    IF fault = "register"
    THEN [err |-> TRUE, registered |-> registered,
          calls |-> <<Call("RegisterInstanceWithAPIServerELB", id, "err")>>]
    ELSE [err |-> FALSE, registered |-> registered \cup {id},
          calls |-> <<Call("RegisterInstanceWithAPIServerELB", id, "ok")>>]

reconcileLBAttachment(m, id, fault) ==
    IF label[m] = "controlplane"
    THEN IF fault = "register"
         THEN [err |-> TRUE, registered |-> registered,
               calls |-> <<Call("RegisterInstanceWithAPIServerELB", id, "err")>>]
         ELSE [err |-> FALSE, registered |-> registered \cup {id},
               calls |-> <<Call("RegisterInstanceWithAPIServerELB", id, "ok")>>]
    ELSE [err |-> FALSE, registered |-> registered, calls |-> <<>>]

\* the result of a verb and the state it leaves
Outcome(result, calls) ==
    [result |-> result, exists |-> FALSE, requeueAfter |-> 0, join |-> "none",
     calls |-> calls, id |-> NoID, state |-> "none", wrote |-> FALSE,
     launched |-> FALSE, launchedID |-> NoID, instances |-> instances,
     registered |-> registered, groups |-> liveGroups, tags |-> liveTags]

Open(m) == <<Call("NewMachineScope", m, "ok")>>
Close(m) == <<Call("Close", m, "ok")>>

\* the scope closed only when the verb succeeds
closeOnSuccessOnly(m, result) == IF result = "ok" THEN Close(m) ELSE <<>>

\* defer scope.Close(): the verb's scope is closed however the verb ends
deferredClose(m, result) == Close(m)

\* MachineScope.Close: the Status written in the scope is committed to the
\* resource store when the scope is closed
committed(m, calls) == \E k \in DOMAIN calls : calls[k] = Call("Close", m, "ok")

\* a verb that got its scope ends with this result after these calls
Done(m, result, calls) == Outcome(result, calls \o deferredClose(m, result))

\* provisionError asking for a retry whatever the error
provisionErrorAlwaysRequeue(out) ==
    [result |-> "requeue", requeueAfter |-> RequeueAfterMinutes]

\* provisionError ending Create for good whatever the error
provisionErrorAlwaysTerminal(out) == [result |-> "error", requeueAfter |-> 0]

\* Create: how a failed provisioning call is reported
provisionError(out) ==
    IF out = "faileddependency"
    THEN [result |-> "requeue", requeueAfter |-> RequeueAfterMinutes]
    ELSE [result |-> "error", requeueAfter |-> 0]

\* setStatus leaving the instance ID of Status as it was
setStatusWithoutID(m, i) == [id |-> statusID[m], state |-> i.state]

\* Create: the Status it writes once the instance i is provisioned
setStatus(m, i) == [id |-> i.id, state |-> i.state]

\* Create from the provisioning call on; pre is the calls made so far
createInstance(m, fault, join, pre) ==
    LET i == CreateOrGetMachine(m, fault)
        p == pre \o <<Call("CreateOrGetMachine", m, i.out)>>
    IN  IF i.out # "ok"
        THEN [Done(m, provisionError(i.out).result, p)
                EXCEPT !.requeueAfter = provisionError(i.out).requeueAfter, !.join = join]
        ELSE LET lb == reconcileLBAttachment(m, i.id, fault)
                 st == setStatus(m, i)
             IN
             [Done(m, IF lb.err THEN "error" ELSE "ok",
                   p \o <<Call("Status", st.id, st.state)>> \o lb.calls)
                EXCEPT !.join = join, !.id = st.id, !.state = st.state, !.wrote = TRUE,
                       !.launched = i.launched, !.launchedID = i.id,
                       !.instances = IF i.launched /\ i.id # NoID
                                     THEN [instances EXCEPT ![i.id] = i.state]
                                     ELSE instances,
                       !.groups = IF i.launched /\ i.id # NoID
                                  THEN [liveGroups EXCEPT ![i.id] = desiredGroups[m]]
                                  ELSE liveGroups,
                       !.tags = IF i.launched /\ i.id # NoID
                                THEN [liveTags EXCEPT ![i.id] = desiredTags[m]]
                                ELSE liveTags,
                       !.registered = lb.registered]

\* Create from the node-join decision on
createJoin(m, fault, join, pre) ==
    LET tok == IF join THEN getNodeJoinToken(fault) ELSE [err |-> FALSE, calls |-> <<>>]
        j == IF join THEN "join" ELSE "nojoin"
    IN  IF tok.err
        THEN [Done(m, "error", pre \o tok.calls) EXCEPT !.join = j]
        ELSE IF fault = "kubeconfig2"
        THEN [Done(m, "error", pre \o tok.calls \o <<Call("GetKubeConfig", 0, "err")>>)
                EXCEPT !.join = j]
        ELSE createInstance(m, fault, j, pre \o tok.calls \o <<Call("GetKubeConfig", 0, "ok")>>)

\* CreateRun going on after the control-plane endpoint failed to resolve
CreateRunEndpointErrorIgnored(m, fault, qm, qf) ==
    IF fault = "scope"
    THEN Outcome("error", <<Call("NewMachineScope", m, "err")>>)
    ELSE IF fault = "list"
    THEN Done(m, "error", Open(m) \o <<Call("GetIP", 0, "ok"), Call("List", 0, "err")>>)
    ELSE LET cls == isNodeJoin(getControlPlaneMachines(MachineList), m, qm, qf)
             ip == IF fault = "ip" THEN "err" ELSE "ok"
             pre == Open(m) \o <<Call("GetIP", 0, ip), Call("List", 0, "ok")>> \o cls.calls
         IN  IF cls.err
             THEN [Done(m, "error", pre) EXCEPT !.join = "err"]
             ELSE createJoin(m, fault, cls.join, pre)

\* Create up to the node-join decision: done with the outcome out, or going
\* on with the decision join after the calls pre
createClassify(m, fault, qm, qf) ==
    LET stop(o) == [done |-> TRUE, out |-> o, join |-> FALSE, pre |-> <<>>] IN
    IF fault = "scope"
    THEN stop(Outcome("error", <<Call("NewMachineScope", m, "err")>>))
    ELSE IF fault = "ip"
    THEN stop(Done(m, "error", Open(m) \o <<Call("GetIP", 0, "err")>>))
    ELSE IF fault = "list"
    THEN stop(Done(m, "error",
                   Open(m) \o <<Call("GetIP", 0, "ok"), Call("List", 0, "err")>>))
    ELSE LET cls == isNodeJoin(getControlPlaneMachines(MachineList), m, qm, qf)
             pre == Open(m) \o <<Call("GetIP", 0, "ok"), Call("List", 0, "ok")>> \o cls.calls
         IN  IF cls.err
             THEN stop([Done(m, "error", pre) EXCEPT !.join = "err"])
             ELSE [done |-> FALSE, out |-> Outcome("none", pre), join |-> cls.join,
                   pre |-> pre]

CreateRun(m, fault, qm, qf) ==
    LET c == createClassify(m, fault, qm, qf) IN
    IF c.done THEN c.out ELSE createJoin(m, fault, c.join, c.pre)

\* instanceState trusting the state cached in Status for an instance that exists
instanceStateFromStatus(cached, instance) ==
    IF instance \in InstanceStates /\ cached \in InstanceStates THEN cached ELSE instance

\* Delete, Exists: the instance state they decide on is instance.State of the
\* lookup, whatever state Status has cached
instanceState(cached, instance) == instance

\* shouldTerminate sparing only the terminated instance
shouldTerminateUnlessTerminated(state) == state # "terminated"

\* Delete: whether an existing instance in this state is terminated
shouldTerminate(state) == state \notin {"shutting-down", "terminated"}

\* Delete of a machine whose Status caches the instance state cached
DeleteWith(m, fault, cached) ==
    IF fault = "scope"
    THEN Outcome("error", <<Call("NewMachineScope", m, "err")>>)
    ELSE IF statusID[m] = NoID
    THEN \* *scope.MachineStatus.InstanceID dereferences the nil pointer; the
         \* deferred scope.Close runs while the panic unwinds
         Done(m, "panic", Open(m))
    ELSE LET id == statusID[m]
             instance == InstanceIfExists(id, fault)
             pre == Open(m) \o <<Call("InstanceIfExists", id, instance)>>
         IN  IF instance = "err" THEN Done(m, "error", pre)
             ELSE IF instance = Absent THEN Done(m, "ok", pre)
             ELSE IF ~shouldTerminate(instanceState(cached, instance))
             THEN Done(m, "ok", pre)
             ELSE IF fault = "terminate"
             THEN Done(m, "error", pre \o <<Call("TerminateInstance", id, "err")>>)
             ELSE [Done(m, "ok", pre \o <<Call("TerminateInstance", id, "ok")>>)
                     EXCEPT !.instances = TerminateInstance(id)]

DeleteRun(m, fault) == DeleteWith(m, fault, statusState[m])

\* isUsable taking only the running instance as existing
isUsableRunningOnly(state) == state = "running"

\* Exists: whether an existing instance in this state counts as existing
isUsable(state) == state \in {"running", "pending"}

\* existsResult dropping the error of the registration
existsResultErrorDropped(lbErr) == [exists |-> TRUE, result |-> "ok"]

\* Exists: what it returns for a usable instance after reconcileLBAttachment
existsResult(lbErr) ==
    [exists |-> TRUE, result |-> IF lbErr THEN "error" ELSE "ok"]

\* Exists of a machine whose Status caches the instance state cached
ExistsWith(m, fault, cached) ==
    IF fault = "scope"
    THEN Outcome("error", <<Call("NewMachineScope", m, "err")>>)
    ELSE IF statusID[m] = NoID
    THEN Done(m, "ok", Open(m))
    ELSE LET id == statusID[m]
             instance == InstanceIfExists(id, fault)
             pre == Open(m) \o <<Call("InstanceIfExists", id, instance)>>
         IN  IF instance = "err" THEN Done(m, "error", pre)
             ELSE IF instance = Absent THEN Done(m, "ok", pre)
             ELSE IF ~isUsable(instanceState(cached, instance)) THEN Done(m, "ok", pre)
             ELSE LET lb == reconcileLBAttachment(m, id, fault) IN
                  [Done(m, existsResult(lb.err).result, pre \o lb.calls)
                     EXCEPT !.exists = existsResult(lb.err).exists,
                            !.registered = lb.registered]

ExistsRun(m, fault) == ExistsWith(m, fault, statusState[m])

\* securityGroupArgs passing no live group of the instance
securityGroupArgsWithoutLive(m, id) == [additional |-> desiredGroups[m], existing |-> {}]

\* Update: the groups it hands to ensureSecurityGroups, the machine's
\* additional groups and the groups of the instance description
securityGroupArgs(m, id) == [additional |-> desiredGroups[m], existing |-> liveGroups[id]]

\* Update from the tag correction on, the instance having the groups groups
updateTags(m, id, fault, pre, groups) ==
    LET tg == ensureTags(id, desiredTags[m], fault) IN
    [Done(m, IF tg.err THEN "error" ELSE "ok", pre \o tg.calls)
        EXCEPT !.groups = [liveGroups EXCEPT ![id] = groups],
               !.tags = [liveTags EXCEPT ![id] = tg.tags]]

\* UpdateRun correcting the tags after a failed security-group correction
UpdateRunGroupErrorIgnored(m, fault) ==
    IF fault = "scope"
    THEN Outcome("error", <<Call("NewMachineScope", m, "err")>>)
    ELSE IF statusID[m] = NoID
    THEN Done(m, "panic", Open(m))
    ELSE LET id == statusID[m]
             instance == InstanceIfExists(id, fault)
             pre == Open(m) \o <<Call("InstanceIfExists", id, instance)>>
         IN  IF instance = "err" THEN Done(m, "error", pre)
             ELSE IF instance = Absent THEN Done(m, "panic", pre)
             ELSE LET a == securityGroupArgs(m, id)
                      sg == ensureSecurityGroups(id, a.additional, a.existing, fault)
                  IN  updateTags(m, id, fault, pre \o sg.calls, sg.groups)

UpdateRun(m, fault) ==
    IF fault = "scope"
    THEN Outcome("error", <<Call("NewMachineScope", m, "err")>>)
    ELSE IF statusID[m] = NoID
    THEN \* *scope.MachineStatus.InstanceID dereferences the nil pointer
         Done(m, "panic", Open(m))
    ELSE LET id == statusID[m]
             instance == InstanceIfExists(id, fault)
             pre == Open(m) \o <<Call("InstanceIfExists", id, instance)>>
         IN  IF instance = "err" THEN Done(m, "error", pre)
             ELSE IF instance = Absent
             THEN \* instanceDescription.SecurityGroupIDs dereferences the nil
                  \* instance description
                  Done(m, "panic", pre)
             ELSE LET a == securityGroupArgs(m, id)
                      sg == ensureSecurityGroups(id, a.additional, a.existing, fault)
                  IN  IF sg.err THEN Done(m, "error", pre \o sg.calls)
                      ELSE updateTags(m, id, fault, pre \o sg.calls, sg.groups)

\* the event a verb leaves behind
Event(verb, m, o) ==
    [verb |-> verb, machine |-> m, result |-> o.result, exists |-> o.exists,
     requeueAfter |-> o.requeueAfter, join |-> o.join, idBefore |-> statusID[m],
     launched |-> o.launched, calls |-> o.calls]

\* ---- actions ----

\* no verb's result is waiting to be taken by the machine controller
Idle == last.verb = "none"

\* Create of machine m returns with the outcome o
CreateReturns(m, o) ==
        /\ o.launched => o.launchedID # NoID
        /\ statusID' = IF o.wrote /\ committed(m, o.calls)
                       THEN [statusID EXCEPT ![m] = o.id] ELSE statusID
        /\ statusState' = IF o.wrote /\ committed(m, o.calls)
                          THEN [statusState EXCEPT ![m] = o.state] ELSE statusState
        /\ annotated' = IF o.wrote /\ committed(m, o.calls)
                        THEN [annotated EXCEPT ![m] = TRUE] ELSE annotated
        /\ instances' = o.instances
        /\ owner' = IF o.launched THEN [owner EXCEPT ![o.launchedID] = m] ELSE owner
        /\ registered' = o.registered
        /\ last' = Event("Create", m, o)
        /\ liveGroups' = o.groups
        /\ liveTags' = o.tags
        /\ UNCHANGED configVars

Create(m) ==
    \E fault \in CreateFaults, q \in QueryFaults :
        /\ Idle
        /\ fault = "none" \/ q[1] = NoMachine
        /\ CreateReturns(m, CreateRun(m, fault, q[1], q[2]))
        /\ UNCHANGED loopVars

Delete(m) ==
    \E fault \in DeleteFaults :
        LET o == DeleteRun(m, fault) IN
        /\ Idle
        /\ instances' = o.instances
        /\ last' = Event("Delete", m, o)
        /\ UNCHANGED <<configVars, statusID, statusState, annotated, owner, registered,
                       driftVars, loopVars>>

Exists(m) ==
    \E fault \in ExistsFaults :
        LET o == ExistsRun(m, fault) IN
        /\ Idle
        /\ registered' = o.registered
        /\ last' = Event("Exists", m, o)
        /\ UNCHANGED <<configVars, statusID, statusState, annotated, instances, owner,
                       driftVars, loopVars>>

Update(m) ==
    \E fault \in UpdateFaults :
        LET o == UpdateRun(m, fault) IN
        /\ Idle
        /\ liveGroups' = o.groups
        /\ liveTags' = o.tags
        /\ last' = Event("Update", m, o)
        /\ UNCHANGED <<configVars, statusID, statusState, annotated, instances, owner,
                       registered, loopVars>>

\* the groups or the tags of an instance are changed behind the actuator's back
Drift(i) ==
    /\ Idle
    /\ instances[i] # Absent
    /\ \/ /\ \E g \in SUBSET Groups : liveGroups' = [liveGroups EXCEPT ![i] = g]
          /\ UNCHANGED liveTags
       \/ /\ \E t \in SUBSET Tags : liveTags' = [liveTags EXCEPT ![i] = t]
          /\ UNCHANGED liveGroups
    /\ UNCHANGED <<configVars, statusID, statusState, annotated, instances, owner,
                   registered, last, loopVars>>

\* the instance lifecycle of the compute backend; a terminated instance is
\* eventually forgotten
Lifecycle ==
    {<<"pending", "running">>, <<"running", "shutting-down">>,
     <<"shutting-down", "terminated">>, <<"terminated", Absent>>}

Backend(i) ==
    \E t \in Lifecycle :
        /\ Idle
        /\ instances[i] = t[1]
        /\ instances' = [instances EXCEPT ![i] = t[2]]
        /\ liveGroups' = IF t[2] = Absent THEN [liveGroups EXCEPT ![i] = {}] ELSE liveGroups
        /\ liveTags' = IF t[2] = Absent THEN [liveTags EXCEPT ![i] = {}] ELSE liveTags
        /\ UNCHANGED <<configVars, statusID, statusState, annotated, owner, registered,
                       last, loopVars>>

\* the machine controller takes the result of the verb it called
Return ==
    /\ ~Idle
    /\ last' = NoEvent
    /\ UNCHANGED <<configVars, statusID, statusState, annotated, instances, owner,
                   registered, driftVars, loopVars>>

Next ==
    \/ \E m \in Machines : Create(m)
    \/ \E m \in Machines : Delete(m)
    \/ \E m \in Machines : Exists(m)
    \/ \E i \in InstanceIDs : Backend(i)
    \/ Return

Spec == Init /\ [][Next]_vars

\* a worker machine with any additional security groups and tags, next to
\* machines without a role label
InitUpdate ==
    /\ label = [m \in Machines |-> IF m = 1 THEN "node" ELSE ""]
    /\ versionsControlPlane = [m \in Machines |-> FALSE]
    /\ desiredGroups \in [Machines -> SUBSET Groups]
    /\ desiredTags \in [Machines -> SUBSET Tags]
    /\ \A m \in Machines : m # 1 => desiredGroups[m] = {} /\ desiredTags[m] = {}
    /\ networkReady = TRUE
    /\ Unprovisioned

NextUpdate ==
    \/ \E m \in Machines : Create(m)
    \/ \E m \in Machines : Update(m)
    \/ \E i \in InstanceIDs : Backend(i)
    \/ \E i \in InstanceIDs : Drift(i)
    \/ Return

SpecUpdate == InitUpdate /\ [][NextUpdate]_vars

\* ---- Create calls of different machines running concurrently ----

\* where Create can fail before and after its node-join decision
ClassifyFaults == {"none", "scope", "ip", "list"}
ProvisionFaults == CreateFaults \ {"scope", "ip", "list"}

\* the worker of machine m runs Create up to the node-join decision
CreateBegin(m) ==
    \E fault \in ClassifyFaults, q \in QueryFaults :
        LET c == createClassify(m, fault, q[1], q[2]) IN
        /\ Idle
        /\ worker[m].stage = "none"
        /\ fault = "none" \/ q[1] = NoMachine
        /\ IF c.done
           THEN /\ last' = Event("Create", m, c.out)
                /\ UNCHANGED worker
           ELSE /\ worker' = [worker EXCEPT ![m] =
                                 [stage |-> "classified",
                                  join |-> IF c.join THEN "join" ELSE "nojoin",
                                  pre |-> c.pre, requeues |-> 0]]
                /\ UNCHANGED last
        /\ UNCHANGED <<configVars, statusID, statusState, annotated, instances, owner,
                       registered, driftVars, networkReady>>

\* the worker of machine m runs the rest of its Create
CreateEnd(m) ==
    \E fault \in ProvisionFaults :
        LET o == createJoin(m, fault, worker[m].join = "join", worker[m].pre) IN
        /\ Idle
        /\ worker[m].stage = "classified"
        /\ CreateReturns(m, o)
        /\ worker' = [worker EXCEPT ![m] =
                         IF o.launched
                         THEN [stage |-> "launched", join |-> worker[m].join,
                               pre |-> <<>>, requeues |-> 0]
                         ELSE NoWork]
        /\ UNCHANGED networkReady

\* control-plane machines only, none of them provisioned
InitConcurrent ==
    /\ label = [m \in Machines |-> "controlplane"]
    /\ versionsControlPlane = [m \in Machines |-> TRUE]
    /\ desiredGroups = [m \in Machines |-> {}]
    /\ desiredTags = [m \in Machines |-> {}]
    /\ networkReady = TRUE
    /\ Unprovisioned

NextConcurrent ==
    \/ \E m \in Machines : CreateBegin(m)
    \/ \E m \in Machines : CreateEnd(m)
    \/ Return

SpecConcurrent == InitConcurrent /\ [][NextConcurrent]_vars

\* ---- the control loop calling Create again after every retry-after ----

\* the control loop calls Create for machine m, for the first time or after
\* a retry-after; the provisioning fails with the dependency-not-ready
\* condition as long as the network infrastructure is not available
CreateAttempt(m) ==
    LET fault == IF networkReady THEN "none" ELSE "faileddependency"
        o == CreateRun(m, fault, NoMachine, "none")
    IN  /\ Idle
        /\ worker[m].stage \in {"none", "requeued"}
        /\ ~networkReady => worker[m].requeues < MaxRequeues
        /\ CreateReturns(m, o)
        /\ worker' = [worker EXCEPT ![m] =
                         [stage |-> IF o.result = "requeue" THEN "requeued"
                                    ELSE IF o.result = "ok" THEN "done" ELSE "failed",
                          join |-> o.join, pre |-> <<>>,
                          requeues |-> IF o.result = "requeue"
                                       THEN worker[m].requeues + 1
                                       ELSE worker[m].requeues]]
        /\ UNCHANGED networkReady

\* the network infrastructure becomes available
NetworkComesUp ==
    /\ ~networkReady
    /\ networkReady' = TRUE
    /\ UNCHANGED <<configVars, statusID, statusState, annotated, instances, owner,
                   registered, last, driftVars, worker>>

\* worker and control-plane machines on a network that is not yet available
InitRetry ==
    /\ label \in [Machines -> {"node", "controlplane"}]
    /\ versionsControlPlane = [m \in Machines |-> label[m] = "controlplane"]
    /\ desiredGroups = [m \in Machines |-> {}]
    /\ desiredTags = [m \in Machines |-> {}]
    /\ networkReady = FALSE
    /\ Unprovisioned

NextRetry ==
    \/ \E m \in Machines : CreateAttempt(m)
    \/ \E m \in Machines : Exists(m)
    \/ \E i \in InstanceIDs : Backend(i)
    \/ NetworkComesUp
    \/ Return

\* the control loop does call Create again, the network does come up
SpecRetry ==
    /\ InitRetry
    /\ [][NextRetry]_vars
    /\ \A m \in Machines : SF_vars(CreateAttempt(m))
    /\ WF_vars(NetworkComesUp)
    /\ WF_vars(Return)

TypeOK ==
    /\ statusID \in [Machines -> InstanceIDs \cup {NoID}]
    /\ instances \in [InstanceIDs -> InstanceStates \cup {Absent}]
    /\ owner \in [InstanceIDs -> Machines \cup {NoMachine}]
    /\ registered \subseteq InstanceIDs

\* ---- properties ----

\* the positions of the calls to op made by the verb that is returning
CallsOf(op) == {k \in DOMAIN last.calls : last.calls[k].op = op}
\* the verb made a call to op that ended with one of the outcomes outs
Ended(op, outs) == \E k \in CallsOf(op) : last.calls[k].out \in outs
\* the verb's own scope was constructed
Scoped == Len(last.calls) > 0 /\ last.calls[1].out = "ok"

\* C1: Delete on a machine whose Status carries no instance ID, or whose
\* recorded instance is absent in the compute backend, returns success and
\* issues no terminate call.
C1_DeleteOfMissingInstanceSucceeds ==
    (/\ last.verb = "Delete"
     /\ Scoped
     /\ last.idBefore = NoID \/ Ended("InstanceIfExists", {Absent}))
        => (last.result = "ok" /\ CallsOf("TerminateInstance") = {})

\* C2: Delete issues a terminate call if and only if the instance exists and
\* its live state is neither shutting-down nor terminated; then it issues
\* exactly one, for the recorded instance ID, and returns while the instance
\* is still there; for a shutting-down or terminated instance it returns
\* success without a terminate call.
C2_DeleteTerminatesLiveInstanceOnce ==
    last.verb = "Delete" =>
        /\ CallsOf("TerminateInstance") # {}
              <=> Ended("InstanceIfExists", {"pending", "running"})
        /\ Cardinality(CallsOf("TerminateInstance")) <= 1
        /\ \A k \in CallsOf("TerminateInstance") :
              /\ last.calls[k].arg = last.idBefore
              /\ last.idBefore # NoID
              /\ last.calls[k].out = "ok"
                    => last.result = "ok" /\ instances[last.idBefore] # Absent
        /\ Ended("InstanceIfExists", {"shutting-down", "terminated"})
              => last.result = "ok" /\ CallsOf("TerminateInstance") = {}

C2_Witness ==
    /\ last.verb = "Delete"
    /\ Ended("TerminateInstance", {"ok"})
    /\ Ended("InstanceIfExists", {"pending"})

\* the instances launched for machine m that exist
BackingInstances(m) == {i \in InstanceIDs : owner[i] = m /\ instances[i] # Absent}

\* C3: Create for a machine whose instance a previous Create provisioned (and
\* which still exists) returns with the same instance ID in Status and
\* provisions nothing; no machine is ever backed by more than one instance,
\* and a successful Create leaves the machine's own instance in Status.
C3_CreateIsIdempotent ==
    /\ \A m \in Machines : Cardinality(BackingInstances(m)) <= 1
    /\ last.verb = "Create" =>
          /\ last.result = "ok" =>
                /\ statusID[last.machine] # NoID
                /\ statusID[last.machine] \in BackingInstances(last.machine)
          /\ (last.idBefore # NoID /\ instances[last.idBefore] # Absent) =>
                /\ ~last.launched
                /\ statusID[last.machine] = last.idBefore

C3_Witness ==
    /\ last.verb = "Create"
    /\ last.result = "ok"
    /\ last.idBefore # NoID
    /\ instances[last.idBefore] # Absent
    /\ Ended("CreateOrGetMachine", {"ok"})

\* C4: Create for a machine whose role label is neither node nor controlplane
\* returns a terminal error without requesting a token, provisioning, or
\* registering with the load balancer.
C4_UnknownRoleAbortsCreate ==
    (last.verb = "Create" /\ label[last.machine] \notin {"node", "controlplane"}) =>
        /\ last.result = "error"
        /\ CallsOf("NewBootstrap") = {}
        /\ CallsOf("CreateOrGetMachine") = {}
        /\ CallsOf("RegisterInstanceWithAPIServerELB") = {}
        /\ ~last.launched
        /\ statusID[last.machine] = last.idBefore

C4_Witness ==
    /\ last.verb = "Create"
    /\ label[last.machine] \notin {"node", "controlplane"}
    /\ Ended("List", {"ok"})
    /\ last.join = "err"

\* C5: when the provisioning call of Create fails with the dependency-not-ready
\* condition Create returns retry-after one minute; with any other error it
\* returns a terminal error, never retry-after. Either way no instance ID is
\* written to Status and no load-balancer registration is attempted.
C5_ProvisioningFailure ==
    last.verb = "Create" =>
        /\ Ended("CreateOrGetMachine", {"faileddependency"})
              => last.result = "requeue" /\ last.requeueAfter = 1
        /\ Ended("CreateOrGetMachine", {"err"})
              => last.result = "error" /\ last.requeueAfter = 0
        /\ last.result = "requeue" => Ended("CreateOrGetMachine", {"faileddependency"})
        /\ Ended("CreateOrGetMachine", {"faileddependency", "err"}) =>
              /\ CallsOf("Status") = {}
              /\ statusID[last.machine] = last.idBefore
              /\ CallsOf("RegisterInstanceWithAPIServerELB") = {}

C5_Witness ==
    /\ last.verb = "Create"
    /\ Ended("CreateOrGetMachine", {"faileddependency"})
    /\ last.result = "requeue"

\* C6: Exists returns true if and only if Status carries an instance ID, the
\* lookup finds the instance and its live state is running or pending; it
\* returns (false, nil) without a backend call when no ID is recorded, and
\* (false, nil) when the instance is absent or in any other state.
C6_ExistsStateMapping ==
    last.verb = "Exists" =>
        /\ last.exists <=>
              (last.idBefore # NoID /\ Ended("InstanceIfExists", {"running", "pending"}))
        /\ (Scoped /\ last.idBefore = NoID) =>
              /\ ~last.exists
              /\ last.result = "ok"
              /\ CallsOf("InstanceIfExists") = {}
        /\ Ended("InstanceIfExists", {Absent, "shutting-down", "terminated"}) =>
              /\ ~last.exists
              /\ last.result = "ok"
        /\ \A k \in CallsOf("InstanceIfExists") : last.calls[k].arg = last.idBefore

C6_Witness ==
    /\ last.verb = "Exists"
    /\ last.exists
    /\ Ended("InstanceIfExists", {"pending"})

\* C7: when Exists finds the instance of a controlplane machine running or
\* pending it attempts the load-balancer registration of that instance, and a
\* failed registration is returned as an error together with existence true.
C7_ExistsReportsRegistrationFailure ==
    (/\ last.verb = "Exists"
     /\ label[last.machine] = "controlplane"
     /\ Ended("InstanceIfExists", {"running", "pending"})) =>
        /\ Cardinality(CallsOf("RegisterInstanceWithAPIServerELB")) = 1
        /\ \A k \in CallsOf("RegisterInstanceWithAPIServerELB") :
              last.calls[k].arg = last.idBefore
        /\ Ended("RegisterInstanceWithAPIServerELB", {"err"})
              => last.exists /\ last.result = "error"

C7_Witness ==
    /\ last.verb = "Exists"
    /\ label[last.machine] = "controlplane"
    /\ Ended("RegisterInstanceWithAPIServerELB", {"err"})

\* C8: for a controlplane machine the classifier returns join exactly when
\* some other machine labeled controlplane has a backing instance that exists.
C8_JoinIffOtherControlPlaneExists ==
    (/\ last.verb = "Create"
     /\ label[last.machine] = "controlplane"
     /\ last.join \in {"join", "nojoin"}) =>
        (last.join = "join" <=>
            \E o \in Machines \ {last.machine} :
                label[o] = "controlplane" /\ MachineExists(o))

\* the positions of the failed existence queries of the classifier
FailedQueries ==
    {k \in CallsOf("NewMachineScope") \cup CallsOf("MachineExists") :
        k > 1 /\ last.calls[k].out = "err"}

\* C9: when an existence query of the classifier fails (scope construction or
\* existence check) the classification fails, and Create returns a terminal
\* error without provisioning.
C9_FailedQueryAbortsCreate ==
    (last.verb = "Create" /\ FailedQueries # {}) =>
        /\ last.join = "err"
        /\ last.result = "error"
        /\ CallsOf("NewBootstrap") = {}
        /\ CallsOf("CreateOrGetMachine") = {}
        /\ ~last.launched
        /\ statusID[last.machine] = last.idBefore

C9_Witness ==
    /\ last.verb = "Create"
    /\ Ended("MachineExists", {"err"})
    /\ Ended("MachineExists", {"false"})

\* C10: when the machine is joining (always for a node machine) Create obtains
\* a bootstrap token with a 10-minute TTL before the provisioning call; when
\* the kubeconfig retrieval or the token issuance fails Create returns a
\* terminal error without provisioning; when not joining no token is requested.
C10_TokenBeforeProvisioning ==
    last.verb = "Create" =>
        /\ (label[last.machine] = "node" /\ Ended("List", {"ok"})) => last.join = "join"
        /\ \A k \in CallsOf("NewBootstrap") : last.calls[k].arg = 10
        /\ last.join = "join" =>
              \A p \in CallsOf("CreateOrGetMachine") :
                  \E k \in CallsOf("NewBootstrap") : k < p /\ last.calls[k].out = "ok"
        /\ last.join # "join" => CallsOf("NewBootstrap") = {}
        /\ (Ended("GetKubeConfig", {"err"}) \/ Ended("NewBootstrap", {"err"})) =>
              /\ last.result = "error"
              /\ CallsOf("CreateOrGetMachine") = {}
              /\ ~last.launched

C10_Witness ==
    /\ last.verb = "Create"
    /\ last.join = "join"
    /\ label[last.machine] = "controlplane"
    /\ Ended("NewBootstrap", {"ok"})
    /\ Ended("CreateOrGetMachine", {"ok"})

\* C11: the Status Create writes is in the resource store when Create returns,
\* also when Create returns a terminal error afterwards: after a successful
\* provisioning and a failed load-balancer registration Create returns the
\* error and the store holds the instance ID and state it wrote.
C11_StatusCommittedOnError ==
    last.verb = "Create" =>
        /\ \A k \in CallsOf("Status") :
              /\ statusID[last.machine] = last.calls[k].arg
              /\ statusState[last.machine] = last.calls[k].out
              /\ annotated[last.machine]
        /\ Ended("CreateOrGetMachine", {"ok"}) => CallsOf("Status") # {}
        /\ Ended("RegisterInstanceWithAPIServerELB", {"err"}) => last.result = "error"

C11_Witness ==
    /\ last.verb = "Create"
    /\ last.result = "error"
    /\ last.idBefore = NoID
    /\ Ended("RegisterInstanceWithAPIServerELB", {"err"})
    /\ statusID[last.machine] # NoID
    /\ statusState[last.machine] = "pending"

\* the positions at which the verb that is returning got a scope
OpenedScopes == {k \in CallsOf("NewMachineScope") : last.calls[k].out = "ok"}

\* C12: every scope a verb gets, the scopes of the role classification
\* included, is closed exactly once before the verb returns, and a verb gets
\* exactly one scope.
C12_EveryScopeClosedOnce ==
    last.verb # "none" =>
        /\ Cardinality(OpenedScopes) <= 1
        /\ \A k \in OpenedScopes :
              Cardinality({j \in CallsOf("Close") :
                              j > k /\ last.calls[j].arg = last.calls[k].arg}) = 1
        /\ Cardinality(CallsOf("Close")) = Cardinality(OpenedScopes)

\* C14: the load-balancer registration is issued only for a controlplane
\* machine and only with that machine's own instance ID; for any other role
\* the attachment step does nothing and succeeds. In Create the registration
\* comes after the successful provisioning call, and a failed registration
\* makes Create return a terminal error.
C14_RegistrationOnlyForControlPlane ==
    last.verb # "none" =>
        /\ \A k \in CallsOf("RegisterInstanceWithAPIServerELB") :
              /\ label[last.machine] = "controlplane"
              /\ last.calls[k].arg = statusID[last.machine]
              /\ owner[last.calls[k].arg] = last.machine
              /\ last.verb = "Create" =>
                    \E p \in CallsOf("CreateOrGetMachine") :
                        p < k /\ last.calls[p].out = "ok"
        /\ (label[last.machine] # "controlplane"
             /\ (Ended("CreateOrGetMachine", {"ok"})
                    \/ Ended("InstanceIfExists", {"running", "pending"}))
             /\ last.verb \in {"Create", "Exists"}) => last.result = "ok"
        /\ (last.verb = "Create" /\ Ended("RegisterInstanceWithAPIServerELB", {"err"}))
              => (last.result = "error" /\ last.requeueAfter = 0)
        /\ (last.verb = "Create" /\ label[last.machine] = "controlplane"
             /\ Ended("CreateOrGetMachine", {"ok"}))
              => Cardinality(CallsOf("RegisterInstanceWithAPIServerELB")) = 1

C14_Witness ==
    /\ last.verb = "Create"
    /\ label[last.machine] = "controlplane"
    /\ Ended("RegisterInstanceWithAPIServerELB", {"ok"})
    /\ \E m \in Machines : label[m] = "node" /\ statusID[m] # NoID

\* the arguments of the calls to op made by the verb that is returning
ArgsOf(op) == {last.calls[k].arg : k \in CallsOf(op)}
\* the mutating calls Update can make
Mutations == {"AddSecurityGroup", "RemoveSecurityGroup", "AddTag", "RemoveTag"}

\* C13: an Update whose security-group correction succeeds leaves the
\* instance with exactly the desired groups, having added each desired group
\* the instance lacked and removed each group that is not desired, once each
\* and nothing else (desired {A,B}, live {B,C}: add A, remove C); an Update
\* that finds no drift makes no mutating call.
C13_UpdateConvergesByDifference ==
    [][(last'.verb = "Update" /\ Ended("ensureSecurityGroups", {"ok"})') =>
        LET m == last'.machine
            id == statusID[m]
        IN  /\ liveGroups'[id] = desiredGroups[m]
            /\ ArgsOf("AddSecurityGroup")' = desiredGroups[m] \ liveGroups[id]
            /\ ArgsOf("RemoveSecurityGroup")' = liveGroups[id] \ desiredGroups[m]
            /\ Cardinality(CallsOf("AddSecurityGroup")')
                  = Cardinality(desiredGroups[m] \ liveGroups[id])
            /\ Cardinality(CallsOf("RemoveSecurityGroup")')
                  = Cardinality(liveGroups[id] \ desiredGroups[m])
            /\ (liveGroups[id] = desiredGroups[m] /\ liveTags[id] = desiredTags[m])
                  => (\A op \in Mutations : CallsOf(op)' = {})
            /\ \A i \in InstanceIDs \ {id} : liveGroups'[i] = liveGroups[i]
      ]_vars

C13_Witness ==
    /\ last.verb = "Update"
    /\ last.result = "ok"
    /\ desiredGroups[last.machine] = {1, 2}
    /\ liveGroups[last.idBefore] = {1, 2}
    /\ ArgsOf("AddSecurityGroup") = {1}
    /\ ArgsOf("RemoveSecurityGroup") = {3}

\* C17 as claimed: a failed security-group correction does not keep Update
\* from correcting the tags in the same call.
C17_TagsCorrectedDespiteGroupFailure ==
    (last.verb = "Update" /\ Ended("ensureSecurityGroups", {"err"})) =>
        /\ CallsOf("ensureTags") # {}
        /\ liveTags[last.idBefore] = desiredTags[last.machine]

\* C17: Update corrects the tags exactly when the security-group correction
\* did not fail, whether or not that correction changed anything; a failed
\* security-group correction ends Update with a terminal error before the
\* tag correction, leaving the tags as they were.
C17_TagsCorrectedUnlessGroupsFailed ==
    last.verb = "Update" =>
        /\ Ended("ensureSecurityGroups", {"err"}) =>
              /\ last.result = "error"
              /\ CallsOf("ensureTags") = {}
              /\ \A op \in Mutations : CallsOf(op) = {}
        /\ Ended("ensureSecurityGroups", {"ok"}) =>
              /\ Cardinality(CallsOf("ensureTags")) = 1
              /\ \A k \in CallsOf("ensureSecurityGroups"), j \in CallsOf("ensureTags") : k < j
              /\ Ended("ensureTags", {"ok"}) =>
                    /\ last.result = "ok"
                    /\ liveTags[last.idBefore] = desiredTags[last.machine]
              /\ Ended("ensureTags", {"err"}) => last.result = "error"

C17_Witness ==
    /\ last.verb = "Update"
    /\ Ended("ensureSecurityGroups", {"err"})
    /\ liveTags[last.idBefore] # desiredTags[last.machine]
    /\ liveGroups[last.idBefore] # desiredGroups[last.machine]

\* C18: Update of a machine without a recorded instance ID, or whose recorded
\* instance is absent, ends with success or a terminal error, never with a
\* crash, and makes no security-group or tag mutation.
C18_UpdateOfMissingInstanceIsDefined ==
    (/\ last.verb = "Update"
     /\ Scoped
     /\ last.idBefore = NoID \/ Ended("InstanceIfExists", {Absent})) =>
        /\ last.result \in {"ok", "error"}
        /\ \A op \in Mutations : CallsOf(op) = {}

\* the control-plane machines provisioned without a bootstrap token
Initialised ==
    {m \in Machines : /\ label[m] = "controlplane"
                      /\ worker[m].stage = "launched"
                      /\ worker[m].join = "nojoin"}

\* C19: however the concurrent Creates of two controlplane machines of a
\* cluster without a control-plane instance interleave, at most one of the
\* machines is provisioned as non-joining, that is without a bootstrap token.
C19_AtMostOneInitialControlPlane == Cardinality(Initialised) <= 1

\* C20: when the control loop calls Create again after every retry-after and
\* the backend eventually stops reporting dependency-not-ready, Create
\* eventually returns success with the instance ID and state in Status, and
\* from then on Exists returns true as long as the instance is pending or
\* running; a retry-after never leaves a partly written Status.
C20_RetryConverges ==
    /\ \A m \in Machines :
          <>(/\ worker[m].stage = "done"
             /\ statusID[m] # NoID
             /\ statusState[m] \in InstanceStates)
    /\ [](\A m \in Machines :
            /\ statusID[m] = NoID <=> statusState[m] = "none"
            /\ statusID[m] = NoID <=> ~annotated[m]
            /\ worker[m].stage \in {"none", "requeued"} => statusID[m] = NoID
            /\ worker[m].stage # "failed")
    /\ [](last.result = "requeue" =>
            /\ last.verb = "Create"
            /\ ~last.launched
            /\ CallsOf("Status") = {}
            /\ statusID[last.machine] = NoID)
    /\ []((/\ last.verb = "Exists"
            /\ worker[last.machine].stage = "done"
            /\ Ended("InstanceIfExists", {"pending", "running"}))
              => last.exists)

C20_Witness ==
    /\ last.verb = "Exists"
    /\ last.exists
    /\ last.result = "ok"
    /\ worker[last.machine].stage = "done"
    /\ worker[last.machine].requeues = MaxRequeues
    /\ statusID[last.machine] # NoID

\* the instance states Status can have cached
CachedStates == InstanceStates \cup {"none"}

\* C15: what Exists returns and whether Delete terminates depend only on the
\* live instance state the backend lookup returns, never on the instance
\* state cached in Status: a verb invoked with any other cached state makes
\* the same calls and returns the same result, and the result is the one the
\* looked-up state dictates even when the cached state says otherwise.
C15_CachedStateIsNeverTrusted ==
    /\ Idle =>
          \A m \in Machines, c \in CachedStates :
              /\ \A f \in DeleteFaults : DeleteWith(m, f, c) = DeleteRun(m, f)
              /\ \A f \in ExistsFaults : ExistsWith(m, f, c) = ExistsRun(m, f)
    /\ \A k \in CallsOf("InstanceIfExists") :
          /\ (last.verb = "Exists" /\ last.calls[k].out \in InstanceStates)
                => (last.exists <=> last.calls[k].out \in {"running", "pending"})
          /\ (last.verb = "Delete" /\ last.calls[k].out \in InstanceStates)
                => (CallsOf("TerminateInstance") # {}
                      <=> last.calls[k].out \in {"running", "pending"})

C15_Witness ==
    /\ last.verb = "Delete"
    /\ statusState[last.machine] = "pending"
    /\ Ended("InstanceIfExists", {"terminated"})
    /\ CallsOf("TerminateInstance") = {}

\* the collaborator calls of Create in the order the success path makes them
CreateOrder ==
    <<"GetIP", "List", "MachineExists", "NewBootstrap", "CreateOrGetMachine",
      "Status", "RegisterInstanceWithAPIServerELB">>

\* C16: Create resolves the control-plane endpoint before any other
\* collaborator call; when the endpoint is unavailable Create returns a
\* terminal error without listing, classifying, requesting a token,
\* provisioning or registering. A successful Create makes its calls in the
\* order: resolve endpoint, list machines, classify, token (when joining),
\* create-or-get, write Status, register.
C16_CreateCallOrder ==
    (last.verb = "Create" /\ Scoped) =>
        /\ last.calls[2].op = "GetIP"
        /\ Cardinality(CallsOf("GetIP")) = 1
        /\ Ended("GetIP", {"err"}) =>
              /\ last.result = "error"
              /\ \A a \in 2..Len(CreateOrder) : CallsOf(CreateOrder[a]) = {}
              /\ ~last.launched
              /\ statusID[last.machine] = last.idBefore
        /\ \A a, b \in DOMAIN CreateOrder :
              a < b => \A k \in CallsOf(CreateOrder[a]), j \in CallsOf(CreateOrder[b]) : k < j
        /\ last.result = "ok" =>
              /\ \A a \in {1, 2, 5, 6} :
                    /\ Cardinality(CallsOf(CreateOrder[a])) = 1
                    /\ Ended(CreateOrder[a], {"ok"} \cup InstanceStates)
              /\ last.join = "join" <=> CallsOf("NewBootstrap") # {}

C16_Witness ==
    /\ last.verb = "Create"
    /\ last.result = "ok"
    /\ Ended("MachineExists", {"true"})
    /\ Ended("NewBootstrap", {"ok"})
    /\ Ended("RegisterInstanceWithAPIServerELB", {"ok"})

====
